---- MODULE Spec2Model ----
(***************************************************************************)
(* The job execution engine of no-gap-gas-v2: JobManager (per-user queues  *)
(* and workers), executeJob with its retry loops, JobLogger, and the rows  *)
(* of the jobs table the engine writes.                                    *)
(*                                                                         *)
(* Goroutines are modelled at statement granularity wherever another       *)
(* goroutine can observe the difference: every access to the shared maps,  *)
(* the mutex, the channels, the WaitGroup and every write to the store is  *)
(* a step of its own.  Purely local statements (JobLogger.Log, building an *)
(* error value) are folded into the neighbouring step.                     *)
(*                                                                         *)
(* Environment: the INSERT and the SELECT of the store's CreateJob may     *)
(* fail (their errors are returned by the code); the UPDATE statements of  *)
(* UpdateJobStatus / AppendJobLogs are taken to succeed (executeJob        *)
(* discards their results).  GetUserConfig, os.MkdirAll, the screenshot    *)
(* capture, GasolinaLogin and CheckAndUpdateIfNeededWithLogger succeed or  *)
(* fail as the environment decides.  In SpecPanic the two operations may   *)
(* also panic; in the other specifications they return.                    *)
(*                                                                         *)
(* retryWithBackoff (the retry helper of the command-line mode) and        *)
(* handleCreateJob (the HTTP handler in front of JobManager.CreateJob) are *)
(* modelled next to the engine, each with a specification of its own.      *)
(***************************************************************************)
EXTENDS Integers, Sequences, FiniteSets, TLC

\* ---------------------------------------------------------------- bounds
NCallers == 2          \* CreateJob calls in progress at once
NTenants == 2          \* distinct userIDs
MaxCalls == 3          \* CreateJob calls begun in one run of Spec
MaxCallsExec == 1      \* CreateJob calls begun in one run of SpecExec
MaxPlanFail == 3       \* an operation fails at most this often before it succeeds
MaxCallsPanic == 2     \* CreateJob calls begun in one run of SpecPanic
MaxReqs == 3           \* requests handleCreateJob gets in one run of SpecHandler
MaxCallsLive == 2      \* CreateJob calls begun in one run of SpecLive
MaxLogLines == 5       \* lines a logger holds when an operation logs one more
MaxSaves == 2          \* Saves of one logger before executeJob's own
MaxCallsStatus == 2    \* CreateJob calls begun in one run of SpecStatus
MaxCallsFair == 3      \* CreateJob calls begun in one run of SpecFair
MaxCallsStop == 2      \* CreateJob calls begun in one run of SpecStop
MaxRetriesArg == 4     \* the largest maxRetries passed to retryWithBackoff

\* ------------------------------------------------------ program constants
QueueCap == 10         \* make(chan *Job, 10)
MaxAttempts == 3       \* for i := 0; i < 3; i++
BaseDelay == 2         \* time.Duration(i*2) * time.Second

Tenants == 1..NTenants
JobTypes == {"full", "test-login", "test-check"}
NilChan == 0           \* the nil channel: what a missed map lookup yields
NoJob == 0
FatalError == 0 - 1    \* outcome of a racy map access: the runtime throws
Free == 0              \* jm.mu unlocked

VARIABLES
  store,      \* jobs table: sequence of rows, a job's id is its index
  shots,      \* screenshots table: set of <<job id, filename>>
  queues,     \* jm.queues: userID -> channel (NilChan: no entry)
  chans,      \* the channels made so far: sequence of [user, buf]
  workers,    \* jm.workers: userID -> BOOLEAN
  mu,         \* jm.mu: Free or (the job of) the call holding it
  wg,         \* jm.wg counter
  shutdown,   \* TRUE once jm.shutdown is closed
  stopPc,     \* Stop(): "idle" (not called), "wait" (in wg.Wait), "done", "panic"
  crashed,    \* the runtime ended the process (fatal error)
  calls,      \* the CreateJob calls in progress: set of records
  wk,         \* worker goroutines started so far: sequence of records
  ncalls,     \* CreateJob calls begun
  execLog,    \* history: per user, the jobs in the order executeJob began
  enqLog,     \* history: per user, the jobs in the order their send completed
  seqAfter,   \* history: per job, the jobs whose CreateJob had returned when its call began
  atStop,     \* history: the jobs inside executeJob when Stop closed the channel
  rb,         \* one call of retryWithBackoff: its arguments, locals and history
  req         \* history: the requests handleCreateJob got, and what the last one was

vars == <<store, shots, queues, chans, workers, mu, wg, shutdown, stopPc, crashed,
          calls, wk, ncalls, execLog, enqLog, seqAfter, atStop, rb, req>>

\* The variables of the engine: all but the call of retryWithBackoff and the
\* history of requests.
engine == <<store, shots, queues, chans, workers, mu, wg, shutdown, stopPc, crashed,
            calls, wk, ncalls, execLog, enqLog, seqAfter, atStop>>

\* ------------------------------------------------------------ values
Tok(k, n, w) == <<k, n, w>>                     \* one JobLogger line
NoErr == [k |-> "nil", op |-> "", n |-> 0]      \* a nil error / NULL error column
OpErr(op, n) == [k |-> "", op |-> op, n |-> n]  \* the error of invocation n of op
\* A wrapper that surfaces the error of the operation's first invocation.
Wrap_First(k, e) == [k |-> k, op |-> e.op, n |-> 1]

Wrap(k, e) == [k |-> k, op |-> e.op, n |-> e.n] \* fmt.Errorf(k + ": %w", e)

\* saved is history: the number of lines the logger held at each of its Saves.
IdleExec == [job |-> NoJob, logs |-> <<>>, err |-> NoErr, i |-> 0,
             plan |-> [login |-> 0, check |-> 0],
             calls |-> [login |-> 0, check |-> 0], lastErr |-> NoErr,
             saved |-> <<>>]

Worker(u) == [user |-> u, pc |-> "start", queue |-> NilChan, ex |-> IdleExec]

ExecPcs == {"running", "prepare", "login", "check", "final",
            "status", "save", "ret"}

\* Further places of a worker: "start" (line 79), "select" (line 82), "done" (it
\* returned on shutdown), "fatal" (a panic unwound it).

\* ------------------------------------------------------------ the store
\* An INSERT that creates the row as failed.
InsertJob_Failed(st, u, ty) ==
  Append(st, [user |-> u, type |-> ty, status |-> "failed", error |-> NoErr,
              logs |-> <<>>, started |-> 0, completed |-> 0])

\* CreateJob (store): INSERT ... status 'pending'
InsertJob(st, u, ty) ==
  Append(st, [user |-> u, type |-> ty, status |-> "pending", error |-> NoErr,
              logs |-> <<>>, started |-> 0, completed |-> 0])

\* An UPDATE that writes started_at with every status.
UpdateJobStatus_Restamp(st, id, status, e) ==
  IF status \in {"completed", "failed"}
    THEN [st EXCEPT ![id].status = status, ![id].error = e, ![id].started = @ + 1,
                    ![id].completed = @ + 1]
    ELSE [st EXCEPT ![id].status = status, ![id].started = @ + 1]

\* UpdateJobStatus: started_at / completed_at are modelled by how often they were written
UpdateJobStatus(st, id, status, e) ==
  IF status = "running"
    THEN [st EXCEPT ![id].status = status, ![id].started = @ + 1]
    ELSE IF status \in {"completed", "failed"}
      THEN [st EXCEPT ![id].status = status, ![id].error = e, ![id].completed = @ + 1]
      ELSE [st EXCEPT ![id].status = status]

\* An UPDATE that appends the lines to the lines already stored.
AppendJobLogs_Concat(st, id, logs) == [st EXCEPT ![id].logs = @ \o logs]

\* AppendJobLogs: UPDATE jobs SET logs = <all lines>.  json.Marshal of a []string
\* keeps every element and their order, and GetJob unmarshals the column into a
\* []string again: the column is modelled by the sequence of lines it decodes to.
AppendJobLogs(st, id, logs) == [st EXCEPT ![id].logs = logs]

\* No call of retryWithBackoff has been made.
NoRetry == [pc |-> "idle", maxRetries |-> 0, i |-> 0, err |-> NoErr,
            outs |-> <<>>, waits |-> <<>>, ret |-> NoErr]

\* No request has reached handleCreateJob.
NoRequest == [n |-> 0, type |-> "", cfg |-> ""]

Init ==
  /\ rb = NoRetry
  /\ req = NoRequest
  /\ store = <<>>
  /\ shots = {}
  /\ queues = [u \in Tenants |-> NilChan]
  /\ chans = <<>>
  /\ workers = [u \in Tenants |-> FALSE]
  /\ mu = Free
  /\ wg = 0
  /\ shutdown = FALSE
  /\ stopPc = "idle"
  /\ crashed = FALSE
  /\ calls = {}
  /\ wk = <<>>
  /\ ncalls = 0
  /\ execLog = [u \in Tenants |-> <<>>]
  /\ enqLog = [u \in Tenants |-> <<>>]
  /\ seqAfter = <<>>
  /\ atStop = {}

\* ---------------------------------------------------- JobManager.CreateJob
\* The jobs whose CreateJob call has returned the job to its caller.
Returned == {j \in 1..Len(store) :
               \E u \in Tenants : \E p \in 1..Len(enqLog[u]) : enqLog[u][p] = j}

\* The users some call has submitted for.
Seen == {store[j].user : j \in 1..Len(store)}

\* A CreateJob call past the store's CreateJob: its job, its userID, its place in
\* the code, the channel line 70 looked up, and whether it began after Stop.
NewCall(j, u) == [job |-> j, user |-> u, pc |-> "lock", q |-> NilChan, afterStop |-> shutdown]

\* The call c with its fields changed to d.
Moved(c, d) == (calls \ {c}) \cup {d}

\* A CreateJob that goes on whatever the store returned.
AfterStore_IgnoreErr(r, j, u) == calls \cup {NewCall(j, u)}

\* What CreateJob does with the result r of the store's CreateJob for the new row j
\* of user u, lines 52-55: on an error return it, else go on to line 58.
AfterStore(r, j, u) == IF r = "ok" THEN calls \cup {NewCall(j, u)} ELSE calls

\* lines 50-55: uuid.New, the store's CreateJob (INSERT, then GetJob); r is what the
\* database does: "ok", "insert_fail" or "get_fail"; at most nc calls are in
\* progress at once.  Users are numbered in the order of their first submission.
CreateJob_Begin(u, ty, r, nc) ==
  /\ ~crashed
  /\ Cardinality(calls) < nc
  /\ \A v \in Tenants : v < u => v \in Seen
  /\ ncalls' = ncalls + 1
  /\ IF r = "insert_fail"
       THEN UNCHANGED <<store, seqAfter>>
       ELSE /\ store' = InsertJob(store, u, ty)
            /\ seqAfter' = Append(seqAfter, Returned)
  /\ calls' = AfterStore(r, Len(store) + 1, u)
  /\ UNCHANGED <<shots, queues, chans, workers, mu, wg, shutdown, stopPc, crashed, wk,
                 execLog, enqLog, atStop>>

\* JobManager.CreateJob called directly: lines 50-55.
CreateJob_Store(u, ty, r, nc) == CreateJob_Begin(u, ty, r, nc) /\ UNCHANGED <<rb, req>>

\* auth.go:424: validTypes
ValidTypes == {"full", "test-login", "test-check"}

\* A handler that leaves the check of the job type out.
Validated_AnyType(ty, cfg) == cfg = "configured"

\* auth.go:424-439: the request passes validTypes[req.Type], GetUserConfig returned
\* no error and cfg.Configured is true.  cfg is what GetUserConfig yields:
\* "configured", "unconfigured" or "error".
Validated(ty, cfg) == ty \in ValidTypes /\ cfg = "configured"

\* auth.go:395-451: handleCreateJob for user u with job type ty: a request that is
\* not Validated is answered with an error (jsonError, return); for the others
\* jobManager.CreateJob(userID, req.Type) is called.
handleCreateJob(u, ty, cfg, r, nc) ==
  /\ req' = [n |-> req.n + 1, type |-> ty, cfg |-> cfg]
  /\ UNCHANGED rb
  /\ IF Validated(ty, cfg)
       THEN CreateJob_Begin(u, ty, r, nc)
       ELSE ~crashed /\ UNCHANGED engine

\* Where CreateJob goes once the queue exists: line 62, if !jm.workers[userID]
AfterQueue(u) == IF workers[u] THEN "unlock" ELSE "mkw"

\* A Lock that excludes nobody.
CanLock_NoMutex == TRUE

\* jm.mu.Lock() can return.
CanLock == mu = Free

\* lines 58-59 (and 62 when the queue exists): jm.mu.Lock(), the lookup jm.queues[userID]
CreateJob_Lock(c) ==
  /\ ~crashed
  /\ c.pc = "lock"
  /\ CanLock
  /\ mu' = c.job
  /\ calls' = Moved(c, [c EXCEPT !.pc = IF queues[c.user] = NilChan
                                          THEN "mkq" ELSE AfterQueue(c.user)])
  /\ UNCHANGED <<store, shots, queues, chans, workers, wg, shutdown, stopPc, crashed, wk,
                 ncalls, execLog, enqLog, seqAfter, atStop>>
  /\ UNCHANGED <<rb, req>>

\* lines 60-62: jm.queues[userID] = make(chan *Job, 10), then if !jm.workers[userID]
CreateJob_MakeQueue(c) ==
  /\ ~crashed
  /\ c.pc = "mkq"
  /\ chans' = Append(chans, [user |-> c.user, buf |-> <<>>])
  /\ queues' = [queues EXCEPT ![c.user] = Len(chans) + 1]
  /\ calls' = Moved(c, [c EXCEPT !.pc = AfterQueue(c.user)])
  /\ UNCHANGED <<store, shots, workers, mu, wg, shutdown, stopPc, crashed, wk,
                 ncalls, execLog, enqLog, seqAfter, atStop>>
  /\ UNCHANGED <<rb, req>>

\* lines 63-65: jm.workers[userID] = true; jm.wg.Add(1); go jm.workerLoop(userID)
CreateJob_StartWorker(c) ==
  /\ ~crashed
  /\ c.pc = "mkw"
  /\ workers' = [workers EXCEPT ![c.user] = TRUE]
  /\ wg' = wg + 1
  /\ wk' = Append(wk, Worker(c.user))
  /\ calls' = Moved(c, [c EXCEPT !.pc = "unlock"])
  /\ UNCHANGED <<store, shots, queues, chans, mu, shutdown, stopPc, crashed,
                 ncalls, execLog, enqLog, seqAfter, atStop>>
  /\ UNCHANGED <<rb, req>>

\* An Unlock put off to the return of CreateJob and then forgotten.
Released_Kept(c) == c.job

\* jm.mu once call c has executed line 67.
Released(c) == Free

\* line 67: jm.mu.Unlock()
CreateJob_Unlock(c) ==
  /\ ~crashed
  /\ c.pc = "unlock"
  /\ mu' = Released(c)
  /\ calls' = Moved(c, [c EXCEPT !.pc = "rdq"])
  /\ UNCHANGED <<store, shots, queues, chans, workers, wg, shutdown, stopPc, crashed, wk,
                 ncalls, execLog, enqLog, seqAfter, atStop>>
  /\ UNCHANGED <<rb, req>>

\* A write of jm.queues is in progress in some goroutine (line 60).
MapWriteInProgress == \E c \in calls : c.pc = "mkq"

\* A lookup that finds the same queue for every user.
UnlockedLookup_Shared(u) == {queues[1]}

\* What a lookup jm.queues[u] made without the mutex can yield: the entry; and,
\* while another goroutine writes the map, a missed lookup (nil) or the runtime's
\* "concurrent map read and map write" fatal error (FatalError).
UnlockedLookup(u) ==
  IF MapWriteInProgress THEN {queues[u], NilChan, FatalError} ELSE {queues[u]}

\* line 70, left side: the lookup jm.queues[userID], made after Unlock
CreateJob_ReadQueue(c) ==
  /\ ~crashed
  /\ c.pc = "rdq"
  /\ \E v \in UnlockedLookup(c.user) :
       IF v = FatalError
         THEN crashed' = TRUE /\ UNCHANGED calls
         ELSE calls' = Moved(c, [c EXCEPT !.pc = "send", !.q = v]) /\ UNCHANGED crashed
  /\ UNCHANGED <<store, shots, queues, chans, workers, mu, wg, shutdown, stopPc, wk,
                 ncalls, execLog, enqLog, seqAfter, atStop>>
  /\ UNCHANGED <<rb, req>>

\* A channel without a capacity.
CanSend_NoBound(ch) == ch /= NilChan

\* The channel operation ch <- job can proceed (a send on a nil channel never can).
CanSend(ch) == ch /= NilChan /\ Len(chans[ch].buf) < QueueCap

\* lines 70-72: the send, then return job, nil
CreateJob_Send(c) ==
  /\ ~crashed
  /\ c.pc = "send"
  /\ CanSend(c.q)
  /\ chans' = [chans EXCEPT ![c.q].buf = Append(@, c.job)]
  /\ enqLog' = [enqLog EXCEPT ![c.user] = Append(@, c.job)]
  /\ calls' = calls \ {c}
  /\ UNCHANGED <<store, shots, queues, workers, mu, wg, shutdown, stopPc, crashed, wk,
                 ncalls, execLog, seqAfter, atStop>>
  /\ UNCHANGED <<rb, req>>

\* ------------------------------------------------------ JobManager.workerLoop
\* lines 77-79: queue := jm.queues[userID], read without the mutex
workerLoop_Start(w) ==
  /\ ~crashed
  /\ w \in 1..Len(wk)
  /\ wk[w].pc = "start"
  /\ \E v \in UnlockedLookup(wk[w].user) :
       IF v = FatalError
         THEN crashed' = TRUE /\ UNCHANGED wk
         ELSE wk' = [wk EXCEPT ![w].pc = "select", ![w].queue = v] /\ UNCHANGED crashed
  /\ UNCHANGED <<store, shots, queues, chans, workers, mu, wg, shutdown, stopPc, calls,
                 ncalls, execLog, enqLog, seqAfter, atStop>>
  /\ UNCHANGED <<rb, req>>

\* A worker that only listens to its queue.
ShutdownReady_Never == FALSE

\* line 83: the case <-jm.shutdown of the select is ready (the channel is closed).
ShutdownReady == shutdown

\* lines 83-84 and the deferred wg.Done(): the select takes the shutdown case
workerLoop_Shutdown(w) ==
  /\ ~crashed
  /\ w \in 1..Len(wk)
  /\ wk[w].pc = "select"
  /\ ShutdownReady
  /\ wk' = [wk EXCEPT ![w].pc = "done"]
  /\ wg' = wg - 1
  /\ UNCHANGED <<store, shots, queues, chans, workers, mu, shutdown, stopPc, crashed, calls,
                 ncalls, execLog, enqLog, seqAfter, atStop>>
  /\ UNCHANGED <<rb, req>>

\* The receive <-ch can proceed (a receive from a nil channel never can).
CanReceive(ch) == ch /= NilChan /\ Len(chans[ch].buf) > 0

\* A channel that hands out the newest element.
Received_Newest(ch) ==
  [job |-> chans[ch].buf[Len(chans[ch].buf)],
   rest |-> SubSeq(chans[ch].buf, 1, Len(chans[ch].buf) - 1)]

\* What a receive from ch yields and leaves: the oldest job buffered, and the others.
Received(ch) == [job |-> Head(chans[ch].buf), rest |-> Tail(chans[ch].buf)]

\* lines 85-86: the select takes job := <-queue and calls executeJob(job).  When the
\* shutdown case is ready too, Go picks either: the guard does not look at shutdown.
workerLoop_Receive(w) ==
  /\ ~crashed
  /\ w \in 1..Len(wk)
  /\ wk[w].pc = "select"
  /\ CanReceive(wk[w].queue)
  /\ LET r == Received(wk[w].queue) IN
       /\ wk' = [wk EXCEPT ![w].pc = "running", ![w].ex = [IdleExec EXCEPT !.job = r.job]]
       /\ execLog' = [execLog EXCEPT ![wk[w].user] = Append(@, r.job)]
       /\ chans' = [chans EXCEPT ![wk[w].queue].buf = r.rest]
  /\ UNCHANGED <<store, shots, queues, workers, mu, wg, shutdown, stopPc, crashed, calls,
                 ncalls, enqLog, seqAfter, atStop>>
  /\ UNCHANGED <<rb, req>>

\* ------------------------------------------------------ JobManager.executeJob
\* lines 93-99: UpdateJobStatus(job.ID, "running", nil); logger := NewJobLogger(job.ID)
executeJob_Running(w) ==
  /\ ~crashed
  /\ w \in 1..Len(wk)
  /\ wk[w].pc = "running"
  /\ store' = UpdateJobStatus(store, wk[w].ex.job, "running", NoErr)
  /\ wk' = [wk EXCEPT ![w].pc = "prepare"]
  /\ UNCHANGED <<shots, queues, chans, workers, mu, wg, shutdown, stopPc, crashed, calls,
                 ncalls, execLog, enqLog, seqAfter, atStop>>
  /\ UNCHANGED <<rb, req>>

\* An early failure that returns at once.
EarlyExit_Return == "ret"

\* lines 105-108 and 115-118: after Log(errMsg) an early failure goes on to
\* UpdateJobStatus(job.ID, "failed", &errMsg) and logger.Save() before it returns.
EarlyExit == "status"

\* The first Log of the run function the switch on job.Type selects.
StartLine(ty) ==
  IF ty = "test-login" THEN Tok("Starting login test", 0, 0)
  ELSE IF ty = "test-check" THEN Tok("Starting check test", 0, 0)
  ELSE Tok("Starting full job", 0, 0)

\* lines 102-150 up to the first call of the run function: GetUserConfig (cfgOk),
\* os.MkdirAll (dirOk), the browser context, the switch on job.Type and the run
\* function's first Log.  On an error of the first two: Log(errMsg), then on to the
\* failed update.  A job.Type that none of the cases matches (the switch has no
\* default) leaves jobErr nil and goes on to line 152.  kl and kc fix the operations this job meets: GasolinaLogin fails
\* its first kl invocations and then succeeds, CheckAndUpdateIfNeededWithLogger its
\* first kc.
executeJob_Prepare(w, cfgOk, dirOk, kl, kc) ==
  /\ ~crashed
  /\ w \in 1..Len(wk)
  /\ wk[w].pc = "prepare"
  /\ (~cfgOk \/ ~dirOk \/ store[wk[w].ex.job].type = "test-login") => kc = 0
  /\ (~cfgOk \/ ~dirOk \/ store[wk[w].ex.job].type \notin JobTypes) => (kl = 0 /\ kc = 0)
  /\ ~cfgOk => dirOk
  /\ wk' = IF ~cfgOk
             THEN [wk EXCEPT ![w].pc = EarlyExit,
                             ![w].ex.err = Wrap("Failed to get user config", OpErr("cfg", 1)),
                             ![w].ex.logs = Append(@, Tok("Failed to get user config", 0, 0))]
           ELSE IF ~dirOk
             THEN [wk EXCEPT ![w].pc = EarlyExit,
                             ![w].ex.err = Wrap("Failed to create screenshot dir", OpErr("mkdir", 1)),
                             ![w].ex.logs = Append(@, Tok("Failed to create screenshot dir", 0, 0))]
           ELSE IF store[wk[w].ex.job].type \notin JobTypes
             THEN [wk EXCEPT ![w].pc = "final"]
           ELSE [wk EXCEPT ![w].pc = "login",
                           ![w].ex.plan = [login |-> kl, check |-> kc],
                           ![w].ex.logs = Append(@, StartLine(store[wk[w].ex.job].type))]
  /\ UNCHANGED <<store, shots, queues, chans, workers, mu, wg, shutdown, stopPc, crashed, calls,
                 ncalls, execLog, enqLog, seqAfter, atStop>>
  /\ UNCHANGED <<rb, req>>

\* A saveScreenshot that says nothing when the capture fails.
ShotLines_Silent(name, ok) ==
  IF ok THEN <<Tok("Screenshot saved: " \o name, 0, 0)>> ELSE <<>>

\* saveScreenshot(name), lines 130-139: the lines it logs ...
ShotLines(name, ok) ==
  IF ok THEN <<Tok("Screenshot saved: " \o name, 0, 0)>>
        ELSE <<Tok("Failed to save screenshot " \o name, 0, 0)>>

\* ... and the rows CreateScreenshot leaves in the screenshots table.
ShotRows(sh, j, name, ok) == IF ok THEN sh \cup {<<j, name>>} ELSE sh

\* A retry loop that sleeps the same time before every retry.
WaitTime_Const(i) == BaseDelay

\* The wait a retry loop sleeps before its iteration i (0-indexed), lines 214-218.
WaitTime(i) == i * BaseDelay

\* "Retry i+1/3 after <wait>...", logged before iteration i > 0.
RetryLines(i) == IF i > 0 THEN <<Tok("Retry", i + 1, WaitTime(i))>> ELSE <<>>

\* A runFullJob that goes on to the check whatever the login loop left.
AfterLoginLoop_GoOn(e) == "check"

\* lines 227-229: with loginErr non-nil runFullJob returns (executeJob goes on at
\* line 152); otherwise it goes on to the check loop.
AfterLoginLoop(e) == IF e /= NoErr THEN "final" ELSE "check"

\* One invocation of GasolinaLogin (its first line, part_002:35, is the only one of
\* its own lines kept) from runTestLoginJob (170-176), runTestCheckJob (183-185) or
\* one iteration of runFullJob's login loop (213-229).
InvokeLogin(w, shotOk) ==
  /\ ~crashed
  /\ w \in 1..Len(wk)
  /\ wk[w].pc = "login"
  /\ LET X == wk[w].ex
         ty == store[X.job].type
         n == X.calls.login + 1
         fails == n <= X.plan.login
         e == OpErr("login", n)
         attempt == <<Tok("Attempting to login", n, 0)>>
     IN
     IF ty = "full"
       THEN
         /\ UNCHANGED shots
         /\ IF fails
              THEN wk' = [wk EXCEPT
                     ![w].ex.calls.login = n,
                     ![w].ex.lastErr = e,
                     ![w].ex.logs = @ \o RetryLines(X.i) \o attempt
                                      \o <<Tok("Login attempt failed", X.i + 1, 0)>>,
                     ![w].ex.i = IF X.i + 1 < MaxAttempts THEN X.i + 1 ELSE 0,
                     ![w].ex.err = IF X.i + 1 < MaxAttempts THEN NoErr
                                   ELSE Wrap("login failed after retries", e),
                     ![w].pc = IF X.i + 1 < MaxAttempts THEN "login" ELSE AfterLoginLoop(e)]
              ELSE wk' = [wk EXCEPT
                     ![w].ex.calls.login = n,
                     ![w].ex.lastErr = NoErr,
                     ![w].ex.logs = @ \o RetryLines(X.i) \o attempt,
                     ![w].ex.i = 0,
                     ![w].pc = AfterLoginLoop(NoErr)]
       ELSE IF fails
         THEN
           /\ UNCHANGED shots
           /\ wk' = [wk EXCEPT
                     ![w].ex.calls.login = n,
                     ![w].ex.lastErr = e,
                     ![w].ex.logs = @ \o attempt,
                     ![w].ex.err = Wrap("login failed", e),
                     ![w].pc = "final"]
         ELSE IF ty = "test-login"
           THEN
             /\ shots' = ShotRows(shots, X.job, "login_success", shotOk)
             /\ wk' = [wk EXCEPT
                     ![w].ex.calls.login = n,
                     ![w].ex.logs = @ \o attempt \o ShotLines("login_success", shotOk)
                                      \o <<Tok("Login test passed", 0, 0)>>,
                     ![w].pc = "final"]
           ELSE
             /\ UNCHANGED shots
             /\ wk' = [wk EXCEPT
                     ![w].ex.calls.login = n,
                     ![w].ex.logs = @ \o attempt,
                     ![w].pc = "check"]
  /\ UNCHANGED <<store, queues, chans, workers, mu, wg, shutdown, stopPc, crashed, calls,
                 ncalls, execLog, enqLog, seqAfter, atStop>>
  /\ UNCHANGED <<rb, req>>

\* One invocation of CheckAndUpdateIfNeededWithLogger (whose own log lines are not
\* modelled) from runTestCheckJob (198-204) or one iteration of runFullJob's check
\* loop (244-263).
InvokeCheck(w, shotOk) ==
  /\ ~crashed
  /\ w \in 1..Len(wk)
  /\ wk[w].pc = "check"
  /\ LET X == wk[w].ex
         ty == store[X.job].type
         n == X.calls.check + 1
         fails == n <= X.plan.check
         e == OpErr("check", n)
     IN
     IF ty = "full"
       THEN
         /\ UNCHANGED shots
         /\ IF fails
              THEN wk' = [wk EXCEPT
                     ![w].ex.calls.check = n,
                     ![w].ex.lastErr = e,
                     ![w].ex.logs = @ \o RetryLines(X.i)
                                      \o <<Tok("Check attempt failed", X.i + 1, 0)>>,
                     ![w].ex.i = IF X.i + 1 < MaxAttempts THEN X.i + 1 ELSE 0,
                     ![w].ex.err = IF X.i + 1 < MaxAttempts THEN NoErr
                                   ELSE Wrap("check and update failed after retries", e),
                     ![w].pc = IF X.i + 1 < MaxAttempts THEN "check" ELSE "final"]
              ELSE wk' = [wk EXCEPT
                     ![w].ex.calls.check = n,
                     ![w].ex.lastErr = NoErr,
                     ![w].ex.logs = @ \o RetryLines(X.i)
                                      \o <<Tok("Full job completed successfully", 0, 0)>>,
                     ![w].ex.i = 0,
                     ![w].pc = "final"]
       ELSE IF fails
         THEN
           /\ UNCHANGED shots
           /\ wk' = [wk EXCEPT
                     ![w].ex.calls.check = n,
                     ![w].ex.lastErr = e,
                     ![w].ex.err = Wrap("check failed", e),
                     ![w].pc = "final"]
         ELSE
           /\ shots' = ShotRows(shots, X.job, "check_success", shotOk)
           /\ wk' = [wk EXCEPT
                     ![w].ex.calls.check = n,
                     ![w].ex.logs = @ \o ShotLines("check_success", shotOk)
                                      \o <<Tok("Check test passed", 0, 0)>>,
                     ![w].pc = "final"]
  /\ UNCHANGED <<store, queues, chans, workers, mu, wg, shutdown, stopPc, crashed, calls,
                 ncalls, execLog, enqLog, seqAfter, atStop>>
  /\ UNCHANGED <<rb, req>>

\* lines 152-155 / 158: with an error Log("Job failed: ...") and
\* saveScreenshot("error_final"); without one Log("Job completed successfully")
executeJob_Final(w, shotOk) ==
  /\ ~crashed
  /\ w \in 1..Len(wk)
  /\ wk[w].pc = "final"
  /\ LET X == wk[w].ex IN
     IF X.err /= NoErr
       THEN /\ shots' = ShotRows(shots, X.job, "error_final", shotOk)
            /\ wk' = [wk EXCEPT ![w].pc = "status",
                                ![w].ex.logs = @ \o <<Tok("Job failed", 0, 0)>>
                                                 \o ShotLines("error_final", shotOk)]
       ELSE /\ UNCHANGED shots
            /\ wk' = [wk EXCEPT ![w].pc = "status",
                                ![w].ex.logs = Append(@, Tok("Job completed successfully", 0, 0))]
  /\ UNCHANGED <<store, queues, chans, workers, mu, wg, shutdown, stopPc, crashed, calls,
                 ncalls, execLog, enqLog, seqAfter, atStop>>
  /\ UNCHANGED <<rb, req>>

\* An executeJob that reports every job as completed.
FinalStatus_AlwaysCompleted(e) == "completed"

\* The status executeJob persists for a job that ended with error e.
FinalStatus(e) == IF e /= NoErr THEN "failed" ELSE "completed"

\* lines 106 / 116 / 156 / 159: UpdateJobStatus(job.ID, "failed", &errMsg) or
\* UpdateJobStatus(job.ID, "completed", nil)
executeJob_Status(w) ==
  /\ ~crashed
  /\ w \in 1..Len(wk)
  /\ wk[w].pc = "status"
  /\ store' = UpdateJobStatus(store, wk[w].ex.job, FinalStatus(wk[w].ex.err), wk[w].ex.err)
  /\ wk' = [wk EXCEPT ![w].pc = "save"]
  /\ UNCHANGED <<shots, queues, chans, workers, mu, wg, shutdown, stopPc, crashed, calls,
                 ncalls, execLog, enqLog, seqAfter, atStop>>
  /\ UNCHANGED <<rb, req>>

\* lines 107 / 117 / 162: logger.Save(), that is AppendJobLogs(jobID, jl.logs)
executeJob_Save(w) ==
  /\ ~crashed
  /\ w \in 1..Len(wk)
  /\ wk[w].pc = "save"
  /\ store' = AppendJobLogs(store, wk[w].ex.job, wk[w].ex.logs)
  /\ wk' = [wk EXCEPT ![w].pc = "ret", ![w].ex.saved = Append(@, Len(wk[w].ex.logs))]
  /\ UNCHANGED <<shots, queues, chans, workers, mu, wg, shutdown, stopPc, crashed, calls,
                 ncalls, execLog, enqLog, seqAfter, atStop>>
  /\ UNCHANGED <<rb, req>>

\* ------------------------------------------------------------ JobLogger
\* Two of the lines GasolinaLogin logs after its first (part_002:50 and :60).
LogMessages == {"Screenshot saved: debug_before_login", "Page HTML length"}

\* JobLogger.Log(m), lines 297-304, called by the operation the run function of
\* worker w is in (GasolinaLogin and CheckAndUpdateIfNeededWithLogger log many
\* lines of their own).
JobLogger_Log(w, m) ==
  /\ ~crashed
  /\ w \in 1..Len(wk)
  /\ wk[w].pc \in {"login", "check"}
  /\ Len(wk[w].ex.logs) < MaxLogLines
  /\ wk' = [wk EXCEPT ![w].ex.logs = Append(@, Tok(m, 0, 0))]
  /\ UNCHANGED <<store, shots, queues, chans, workers, mu, wg, shutdown, stopPc, crashed, calls,
                 ncalls, execLog, enqLog, seqAfter, atStop>>
  /\ UNCHANGED <<rb, req>>

\* JobLogger.Save(), lines 307-311, called by a holder of the logger of worker w
\* while the run function is in progress.
JobLogger_Save(w) ==
  /\ ~crashed
  /\ w \in 1..Len(wk)
  /\ wk[w].pc \in {"login", "check"}
  /\ Len(wk[w].ex.saved) < MaxSaves
  /\ store' = AppendJobLogs(store, wk[w].ex.job, wk[w].ex.logs)
  /\ wk' = [wk EXCEPT ![w].ex.saved = Append(@, Len(wk[w].ex.logs))]
  /\ UNCHANGED <<shots, queues, chans, workers, mu, wg, shutdown, stopPc, crashed, calls,
                 ncalls, execLog, enqLog, seqAfter, atStop>>
  /\ UNCHANGED <<rb, req>>

\* A worker that returns from workerLoop after its first job.
LoopBack_Return == "done"

\* lines 81-88: the for loop has no exit but the return of the shutdown case; after
\* executeJob the worker is at its select again.
LoopBack == "select"

\* line 163 and the return to the for loop of workerLoop (line 81)
executeJob_Return(w) ==
  /\ ~crashed
  /\ w \in 1..Len(wk)
  /\ wk[w].pc = "ret"
  /\ wk' = [wk EXCEPT ![w].pc = LoopBack, ![w].ex = IdleExec]
  /\ UNCHANGED <<store, shots, queues, chans, workers, mu, wg, shutdown, stopPc, crashed, calls,
                 ncalls, execLog, enqLog, seqAfter, atStop>>
  /\ UNCHANGED <<rb, req>>

\* ------------------------------------------------------------ panics
\* A panic raised inside GasolinaLogin or CheckAndUpdateIfNeededWithLogger while the
\* run function of a job calls it.  Nothing on the way up recovers: the deferred
\* jobCancel and cancel of executeJob run (lines 123, 127), lines 152-163 do not,
\* and the deferred jm.wg.Done() of workerLoop runs (line 77) as the goroutine
\* unwinds.
executeJob_Panic(w) ==
  /\ ~crashed
  /\ w \in 1..Len(wk)
  /\ wk[w].pc \in {"login", "check"}
  /\ wk' = [wk EXCEPT ![w].pc = "fatal"]
  /\ wg' = wg - 1
  /\ UNCHANGED <<store, shots, queues, chans, workers, mu, shutdown, stopPc, crashed, calls,
                 ncalls, execLog, enqLog, seqAfter, atStop>>
  /\ UNCHANGED <<rb, req>>

\* The goroutine has unwound with the panic still unrecovered: the runtime prints
\* it and ends the process, every goroutine with it.
workerLoop_Fatal(w) ==
  /\ ~crashed
  /\ w \in 1..Len(wk)
  /\ wk[w].pc = "fatal"
  /\ crashed' = TRUE
  /\ UNCHANGED <<store, shots, queues, chans, workers, mu, wg, shutdown, stopPc, calls, wk,
                 ncalls, execLog, enqLog, seqAfter, atStop>>
  /\ UNCHANGED <<rb, req>>

\* ------------------------------------------------------------ JobManager.Stop
\* The jobs some worker is inside executeJob for.
Executing == {wk[w].ex.job : w \in {x \in 1..Len(wk) : wk[x].pc \in ExecPcs}}

\* line 43: close(jm.shutdown)
Stop_Close ==
  /\ ~crashed
  /\ stopPc = "idle"
  /\ shutdown' = TRUE
  /\ stopPc' = "wait"
  /\ atStop' = Executing
  /\ UNCHANGED <<store, shots, queues, chans, workers, mu, wg, crashed, calls, wk,
                 ncalls, execLog, enqLog, seqAfter>>
  /\ UNCHANGED <<rb, req>>

\* A Wait that does not wait.
WaitDone_NoWait == TRUE

\* wg.Wait() can return: the counter is zero.
WaitDone == wg = 0

\* lines 44-46: jm.wg.Wait() returns, Stop returns
Stop_Wait ==
  /\ ~crashed
  /\ stopPc = "wait"
  /\ WaitDone
  /\ stopPc' = "done"
  /\ UNCHANGED <<store, shots, queues, chans, workers, mu, wg, shutdown, crashed, calls, wk,
                 ncalls, execLog, enqLog, seqAfter, atStop>>
  /\ UNCHANGED <<rb, req>>

\* A further call of Stop, after or while an earlier one: line 43 closes a channel
\* that is closed already, which panics ("close of closed channel"); nothing
\* recovers, the process ends.
Stop_Second ==
  /\ ~crashed
  /\ shutdown
  /\ stopPc' = "panic"
  /\ crashed' = TRUE
  /\ UNCHANGED <<store, shots, queues, chans, workers, mu, wg, shutdown, calls, wk,
                 ncalls, execLog, enqLog, seqAfter, atStop>>
  /\ UNCHANGED <<rb, req>>

\* ------------------------------------------------------------ retryWithBackoff
\* The errors fn can return at its invocation n.
FnErrors(n) == {OpErr("timeout", n), OpErr("denied", n)}

\* part_001:339-340: the call retryWithBackoff(ctx, m, fn); var err error; i := 0
retryWithBackoff_Enter(m) ==
  /\ rb.pc = "idle"
  /\ rb' = [NoRetry EXCEPT !.pc = "loop", !.maxRetries = m]
  /\ UNCHANGED <<engine, req>>

\* A loop that returns the error it saw first.
LoopResult_First(r) ==
  IF \E p \in 1..Len(r.outs) : r.outs[p] /= NoErr
    THEN r.outs[CHOOSE p \in 1..Len(r.outs) :
                  r.outs[p] /= NoErr /\ \A q \in 1..(p - 1) : r.outs[q] = NoErr]
    ELSE NoErr

\* part_001:356: what the loop returns when i < maxRetries is false: return err
LoopResult(r) == r.err

\* part_001:340-345 and 356: the test i < maxRetries; inside the loop, for i > 0, the
\* sleep of waitTime; after the loop, return err
retryWithBackoff_Loop ==
  /\ rb.pc = "loop"
  /\ rb' = IF rb.i < rb.maxRetries
             THEN [rb EXCEPT !.pc = "call",
                             !.waits = IF rb.i > 0 THEN Append(@, <<rb.i + 1, WaitTime(rb.i)>>)
                                       ELSE @]
             ELSE [rb EXCEPT !.pc = "returned", !.ret = LoopResult(rb)]
  /\ UNCHANGED <<engine, req>>

\* A loop that goes on to the next iteration after a success.
AfterCall_NoStop(r, e) == [r EXCEPT !.pc = "loop", !.i = @ + 1]

\* part_001:348-351 and the i++: where retryWithBackoff goes when fn returned e
AfterCall(r, e) ==
  IF e = NoErr THEN [r EXCEPT !.pc = "returned", !.ret = NoErr]
  ELSE [r EXCEPT !.pc = "loop", !.i = @ + 1]

\* part_001:347-353: err = fn(), with e what fn returns
retryWithBackoff_Call(e) ==
  /\ rb.pc = "call"
  /\ e \in FnErrors(Len(rb.outs) + 1) \cup {NoErr}
  /\ rb' = AfterCall([rb EXCEPT !.err = e, !.outs = Append(@, e)], e)
  /\ UNCHANGED <<engine, req>>

\* ------------------------------------------------------------ specifications
StoreResults == {"ok", "insert_fail", "get_fail"}
Plans == 0..MaxPlanFail

\* One step of the engine past the entry of CreateJob: OK the outcomes of
\* GetUserConfig / MkdirAll / the screenshot capture, KL and KC how often
\* GasolinaLogin and CheckAndUpdateIfNeededWithLogger fail before they succeed, mc
\* the number of workers there can be.
Run(OK, KL, KC, mc) ==
  \/ \E c \in calls : CreateJob_Lock(c)
  \/ \E c \in calls : CreateJob_MakeQueue(c)
  \/ \E c \in calls : CreateJob_StartWorker(c)
  \/ \E c \in calls : CreateJob_Unlock(c)
  \/ \E c \in calls : CreateJob_ReadQueue(c)
  \/ \E c \in calls : CreateJob_Send(c)
  \/ \E w \in 1..mc : workerLoop_Start(w)
  \/ \E w \in 1..mc : workerLoop_Shutdown(w)
  \/ \E w \in 1..mc : workerLoop_Receive(w)
  \/ \E w \in 1..mc : executeJob_Running(w)
  \/ \E w \in 1..mc, cfgOk \in OK, dirOk \in OK, kl \in KL, kc \in KC :
       executeJob_Prepare(w, cfgOk, dirOk, kl, kc)
  \/ \E w \in 1..mc, ok \in OK : InvokeLogin(w, ok)
  \/ \E w \in 1..mc, ok \in OK : InvokeCheck(w, ok)
  \/ \E w \in 1..mc, ok \in OK : executeJob_Final(w, ok)
  \/ \E w \in 1..mc : executeJob_Status(w)
  \/ \E w \in 1..mc : executeJob_Save(w)
  \/ \E w \in 1..mc : executeJob_Return(w)
  \/ Stop_Close
  \/ Stop_Wait

\* One step of the engine in an environment: TS the users submitted for, TY the job
\* types, SR what the database does on CreateJob, OK the outcomes of GetUserConfig /
\* MkdirAll / the screenshot capture, KL and KC how often GasolinaLogin and
\* CheckAndUpdateIfNeededWithLogger fail before they succeed, nc the number of
\* concurrent calls, mc the number of calls.
Step(TS, TY, SR, OK, KL, KC, nc, mc) ==
  \/ \E u \in TS, ty \in TY, r \in SR : ncalls < mc /\ CreateJob_Store(u, ty, r, nc)
  \/ Run(OK, KL, KC, mc)

\* Spec: NCallers concurrent submitters over NTenants users and Stop; the database
\* may fail a CreateJob, a job's login may fail once.
Next == Step(Tenants, {"test-check"}, StoreResults, {TRUE}, 0..1, {0}, NCallers, MaxCalls)

Spec == Init /\ [][Next]_vars

\* SpecExec: one submitter, one user, every job type and every outcome of every
\* operation executeJob calls.
NextExec == Step({1}, JobTypes, StoreResults, BOOLEAN, Plans, Plans, 1, MaxCallsExec)

SpecExec == Init /\ [][NextExec]_vars

\* SpecFull: one submitter filling one user's queue beyond its capacity; nothing fails.
NextFull == Step({1}, {"test-check"}, {"ok"}, {TRUE}, {0}, {0}, 1, QueueCap + 2)

SpecFull == Init /\ [][NextFull]_vars

\* SpecRetry: one call of retryWithBackoff with any maxRetries up to MaxRetriesArg
\* and any sequence of results of fn.
NextRetry ==
  \/ \E m \in 0..MaxRetriesArg : retryWithBackoff_Enter(m)
  \/ retryWithBackoff_Loop
  \/ \E e \in UNION {FnErrors(n) : n \in 1..MaxRetriesArg} \cup {NoErr} : retryWithBackoff_Call(e)

SpecRetry == Init /\ [][NextRetry]_vars

\* SpecBackoff: a call of retryWithBackoff next to an engine running one full job
\* whose operations fail any number of times.
NextBackoff ==
  \/ NextRetry
  \/ Step({1}, {"full"}, {"ok"}, {TRUE}, Plans, Plans, 1, 1)

SpecBackoff == Init /\ [][NextBackoff]_vars

\* SpecPanic: sequential submitters over NTenants users, with operations that fail
\* at most once and may panic.
NextPanic ==
  \/ Step(Tenants, {"test-check"}, {"ok"}, {TRUE}, 0..1, {0}, 1, MaxCallsPanic)
  \/ \E w \in 1..MaxCallsPanic : executeJob_Panic(w)
  \/ \E w \in 1..MaxCallsPanic : workerLoop_Fatal(w)

SpecPanic == Init /\ [][NextPanic]_vars

\* What GetUserConfig yields for the user of a request.
ConfigResults == {"configured", "unconfigured", "error"}

\* SpecHandler: requests of a user, configured or not, for a supported or an
\* unsupported job type reach handleCreateJob one at a time; the engine runs the
\* admitted jobs.
NextHandler ==
  \/ \E u \in {1}, ty \in {"test-check", "test-bogus"}, cfg \in ConfigResults,
        r \in StoreResults :
       req.n < MaxReqs /\ handleCreateJob(u, ty, cfg, r, 1)
  \/ Run({TRUE}, {0}, {0}, MaxReqs)

SpecHandler == Init /\ [][NextHandler]_vars

\* SpecLogger: one job of one user, nothing failing, with the Log calls of the
\* operations and further Save calls on the job's logger while the job runs.
NextLogger ==
  \/ Step({1}, {"test-check"}, {"ok"}, {TRUE}, {0}, {0}, 1, 1)
  \/ \E m \in LogMessages : JobLogger_Log(1, m)
  \/ JobLogger_Save(1)

SpecLogger == Init /\ [][NextLogger]_vars

\* SpecStatus: one user's jobs of every type, submitted one call at a time, with
\* every outcome of GetUserConfig, MkdirAll and the captures, and operations that
\* fail at most once.
NextStatus == Step({1}, JobTypes, {"ok"}, BOOLEAN, 0..1, 0..1, 1, MaxCallsStatus)

SpecStatus == Init /\ [][NextStatus]_vars

\* The job types a caller of JobManager.CreateJob can pass: jobType is a string that
\* CreateJob does not look at.
AnyTypes == JobTypes \cup {"test-bogus"}

\* SpecTypes: one user's job of any type string, with operations that fail at most
\* once.
NextTypes == Step({1}, AnyTypes, {"ok"}, {TRUE}, 0..1, 0..1, 1, MaxCallsExec)

SpecTypes == Init /\ [][NextTypes]_vars

\* SpecStop: sequential submitters over NTenants users, nothing failing, and Stop
\* called any number of times.
NextStop ==
  \/ Step(Tenants, {"test-check"}, {"ok"}, {TRUE}, {0}, {0}, 1, MaxCallsStop)
  \/ Stop_Second

SpecStop == Init /\ [][NextStop]_vars

\* A submitter waits at line 70 because the user's queue holds QueueCap jobs.
SubmitterWaits == \E c \in calls : c.pc = "send" /\ c.q /= NilChan /\ ~CanSend(c.q)

\* SpecTenants: user 1 submits, one call after the other, until a call waits on
\* its full queue; while it waits the other users submit; nothing fails.
NextTenants ==
  Step(IF SubmitterWaits THEN Tenants \ {1} ELSE {1},
       {"test-check"}, {"ok"}, {TRUE}, {0}, {0},
       IF SubmitterWaits THEN 2 ELSE 1, QueueCap + 3)

SpecTenants == Init /\ [][NextTenants]_vars

\* The next statement of worker goroutine w, the shutdown case of its select apart.
ServeStep(w) ==
  \/ workerLoop_Start(w) \/ workerLoop_Receive(w)
  \/ executeJob_Running(w)
  \/ \E kl \in 0..1 : executeJob_Prepare(w, TRUE, TRUE, kl, 0)
  \/ InvokeLogin(w, TRUE) \/ InvokeCheck(w, TRUE) \/ executeJob_Final(w, TRUE)
  \/ executeJob_Status(w) \/ executeJob_Save(w) \/ executeJob_Return(w)

\* The next statement of the goroutine of a CreateJob call past the INSERT.
SubmitStep ==
  \/ \E c \in calls : CreateJob_Lock(c)
  \/ \E c \in calls : CreateJob_MakeQueue(c)
  \/ \E c \in calls : CreateJob_StartWorker(c)
  \/ \E c \in calls : CreateJob_Unlock(c)
  \/ \E c \in calls : CreateJob_ReadQueue(c)
  \/ \E c \in calls : CreateJob_Send(c)

\* SpecFair: Stop is never called; one CreateJob call at a time, for any user; every
\* operation of a job returns; the Go scheduler runs every goroutine that can
\* execute a statement.
NextFair ==
  \/ \E u \in Tenants : ncalls < MaxCallsFair /\ CreateJob_Store(u, "test-check", "ok", 1)
  \/ SubmitStep
  \/ \E w \in 1..MaxCallsFair : ServeStep(w)

SpecFair ==
  /\ Init /\ [][NextFair]_vars
  /\ WF_vars(SubmitStep)
  /\ \A w \in 1..MaxCallsFair : WF_vars(ServeStep(w))

\* The next statement of worker goroutine w.
WorkerStep(w) ==
  \/ workerLoop_Start(w) \/ workerLoop_Shutdown(w) \/ workerLoop_Receive(w)
  \/ executeJob_Running(w)
  \/ \E kl \in 0..1 : executeJob_Prepare(w, TRUE, TRUE, kl, 0)
  \/ InvokeLogin(w, TRUE) \/ InvokeCheck(w, TRUE) \/ executeJob_Final(w, TRUE)
  \/ executeJob_Status(w) \/ executeJob_Save(w) \/ executeJob_Return(w)

\* SpecLive: one CreateJob call at a time, for any user, none begun once
\* Stop has been called.  The Go scheduler runs every goroutine that can run: a
\* worker goroutine that can execute a statement, and Stop when wg.Wait() can
\* return, eventually do so; every operation of a job returns.
NextLive ==
  \/ \E u \in Tenants :
       ~shutdown /\ ncalls < MaxCallsLive /\ CreateJob_Store(u, "test-check", "ok", 1)
  \/ Run({TRUE}, 0..1, {0}, MaxCallsLive)

SpecLive ==
  /\ Init /\ [][NextLive]_vars
  /\ \A w \in 1..MaxCallsLive : WF_vars(WorkerStep(w))
  /\ WF_vars(Stop_Wait)

\* ==================================================================== claims
Jobs == 1..Len(store)
Terminal == {"completed", "failed"}
WorkersOf(u) == {w \in 1..Len(wk) : wk[w].user = u}
ChansOf(u) == {ch \in 1..Len(chans) : chans[ch].user = u}

\* C1: in every reachable state, every user has at most one job inside executeJob
\* and at most one job whose persisted status is "running".
Thm_C1 ==
  \A u \in Tenants :
    /\ Cardinality({w \in WorkersOf(u) : wk[w].pc \in ExecPcs}) <= 1
    /\ Cardinality({j \in Jobs : store[j].user = u /\ store[j].status = "running"}) <= 1

\* C1 witness: a job of a user is running while another job of that user waits in
\* the queue and a third call for that user is in progress.
Wit_C1 ==
  \E w \in 1..Len(wk) :
    /\ wk[w].pc \in ExecPcs
    /\ store[wk[w].ex.job].status = "running"
    /\ wk[w].queue /= NilChan
    /\ Len(chans[wk[w].queue].buf) >= 1
    /\ \E c \in calls : c.user = wk[w].user

\* C2: without shutdown, when the call that created j1 had returned before the call
\* that created j2 (same user) began, j2 is not set to "running" before j1 has
\* reached "completed" or "failed".
Thm_C2 ==
  ~shutdown =>
    \A j2 \in Jobs : \A j1 \in seqAfter[j2] :
      (store[j1].user = store[j2].user /\ store[j2].status /= "pending")
        => store[j1].status \in Terminal

\* C2 witness: a job submitted after an earlier call of the same user had returned
\* has been started.
Wit_C2 ==
  /\ ~shutdown
  /\ \E j2 \in Jobs : \E j1 \in seqAfter[j2] :
       store[j1].user = store[j2].user /\ store[j2].status /= "pending"

\* C3 as claimed: a user's jobs are executed in the order in which their "pending"
\* rows were created (job ids are given in that order).
CX_C3 ==
  \A u \in Tenants : \A p, q \in 1..Len(execLog[u]) :
    p < q => execLog[u][p] < execLog[u][q]

\* C3 amended: a user's jobs are executed in the order in which their sends on the
\* user's channel completed.
Thm_C3 ==
  \A u \in Tenants :
    /\ Len(execLog[u]) <= Len(enqLog[u])
    /\ \A p \in 1..Len(execLog[u]) : execLog[u][p] = enqLog[u][p]

\* C3 witness: two jobs of one user, enqueued by concurrent calls against the order
\* of their rows, have both been executed.
Wit_C3 ==
  \E u \in Tenants :
    /\ Len(execLog[u]) >= 2
    /\ execLog[u][1] > execLog[u][2]

\* C4 as claimed: a CreateJob call that began after Stop was called creates no job
\* row (and so never gets past the store's CreateJob).
CX_C4 == \A c \in calls : c.afterStop => c.job \notin Jobs

\* C5 as claimed: no CreateJob call waits at the send with the user's queue holding
\* its full capacity.
CX_C5 ==
  \A c \in calls :
    ~(c.pc = "send" /\ c.q /= NilChan /\ Len(chans[c.q].buf) = QueueCap)

\* C6: when Stop has returned, every job that was inside executeJob when Stop was
\* called has a persisted status "completed" or "failed" and executeJob has
\* returned for it.
Thm_C6 ==
  stopPc = "done" =>
    \A j \in atStop : store[j].status \in Terminal /\ j \notin Executing

\* C6 witness: Stop has returned and a job was being executed when it was called.
Wit_C6 == stopPc = "done" /\ atStop /= {}

\* C7 as claimed: once the shutdown channel is closed no job is moved from "pending"
\* to "running".
CX_C7 ==
  [][\A j \in Jobs : (shutdown /\ store[j].status = "pending")
                        => store'[j].status /= "running"]_vars

\* C8: a CreateJob whose INSERT fails returns at once and leaves the engine as it
\* was: nothing enqueued, no queue, no worker, no call going on to line 58.
Thm_C8 ==
  [][(ncalls' = ncalls + 1 /\ store' = store)
       => /\ calls' = calls
          /\ queues' = queues /\ chans' = chans
          /\ workers' = workers /\ wk' = wk /\ wg' = wg /\ mu' = mu]_vars

\* C8 witness: some call's INSERT has failed, while the engine already has a queue,
\* a worker and another call in progress.
Wit_C8 == ncalls > Len(store) /\ Len(chans) > 0 /\ Len(wk) > 0 /\ calls /= {}

\* C9: for every user at most one channel and at most one worker goroutine is ever
\* created, the map entry is that channel, and a call past the critical section
\* finds exactly one of each.
Thm_C9 ==
  \A u \in Tenants :
    /\ Cardinality(ChansOf(u)) <= 1
    /\ Cardinality(WorkersOf(u)) <= 1
    /\ queues[u] /= NilChan => queues[u] \in ChansOf(u)
    /\ workers[u] <=> WorkersOf(u) /= {}
    /\ \A c \in calls : (c.user = u /\ c.pc \in {"rdq", "send"})
         => Cardinality(ChansOf(u)) = 1 /\ Cardinality(WorkersOf(u)) = 1

\* C9 witness: two concurrent calls for the same user are both past the critical
\* section.
Wit_C9 ==
  \E c, d \in calls :
    c /= d /\ c.user = d.user /\ c.pc \in {"rdq", "send"} /\ d.pc \in {"rdq", "send"}

\* The "Attempting to login" lines of a log: one per invocation of GasolinaLogin.
LoginAttempts(logs) == Len(SelectSeq(logs, LAMBDA t : t[1] = "Attempting to login"))

\* The place of the last "Attempting to login" line of a log (0: none).
LastLogin(logs) ==
  LET P == {p \in 1..Len(logs) : logs[p][1] = "Attempting to login"}
  IN IF P = {} THEN 0 ELSE CHOOSE p \in P : \A q \in P : q <= p

\* The waits of the "Retry" lines among the lines from..to of a log, in order.
RetryWaits(logs, from, to) ==
  LET R == SelectSeq(SubSeq(logs, from, to), LAMBDA t : t[1] = "Retry")
  IN [p \in 1..Len(R) |-> R[p][3]]

Increasing(ws) == \A p \in 1..(Len(ws) - 1) : ws[p] < ws[p + 1]

\* The workers that have just left executeJob for a job whose run function was entered.
Ran == {w \in 1..Len(wk) : wk[w].pc = "ret" /\ wk[w].ex.calls.login >= 1}

\* C10 as claimed (max_attempts = 3 for every job type): when GasolinaLogin fails
\* k < 3 times and then succeeds, and nothing else fails, the job ends "completed",
\* its log holds k+1 attempt lines and the waits logged between them increase.
CX_C10 ==
  \A w \in Ran :
    LET X == wk[w].ex
        L == store[X.job].logs
    IN (X.plan.login < MaxAttempts /\ X.plan.check = 0)
         => /\ store[X.job].status = "completed"
            /\ LoginAttempts(L) = X.plan.login + 1
            /\ Increasing(RetryWaits(L, 1, Len(L)))

\* C10 amended: a full job gives each of its two operations 3 attempts: when the
\* login fails kl < 3 times and the check kc < 3 times before succeeding, the job
\* ends "completed", the login was invoked kl+1 times (kl+1 attempt lines) and the
\* check kc+1 times, and each retry loop logged kl (kc) waits, strictly increasing.
\* A test-login or test-check job gives each operation one attempt: it ends
\* "completed" with one attempt line when nothing fails, and "failed" at the first
\* failure, without a retry.
Thm_C10 ==
  \A w \in Ran :
    LET X == wk[w].ex
        ty == store[X.job].type
        L == store[X.job].logs
        kl == X.plan.login
        kc == X.plan.check
        lw == RetryWaits(L, 1, LastLogin(L))
        cw == RetryWaits(L, LastLogin(L) + 1, Len(L))
    IN IF ty = "full"
         THEN (kl < MaxAttempts /\ kc < MaxAttempts)
                => /\ store[X.job].status = "completed"
                   /\ X.calls.login = kl + 1 /\ LoginAttempts(L) = kl + 1
                   /\ X.calls.check = kc + 1
                   /\ Len(lw) = kl /\ Increasing(lw)
                   /\ Len(cw) = kc /\ Increasing(cw)
         ELSE /\ X.calls.login = 1 /\ LoginAttempts(L) = 1
              /\ X.calls.check <= 1
              /\ Len(lw) = 0 /\ Len(cw) = 0
              /\ store[X.job].status = IF kl = 0 /\ kc = 0 THEN "completed" ELSE "failed"

\* C10 witness: a full job whose login and check each failed twice has completed.
Wit_C10 ==
  \E w \in Ran :
    /\ store[wk[w].ex.job].type = "full"
    /\ wk[w].ex.plan = [login |-> 2, check |-> 2]
    /\ store[wk[w].ex.job].status = "completed"

\* ------------------------------------------------------------------ C11
\* The attempts a job of type ty gives each operation: runFullJob loops 3 times,
\* runTestLoginJob and runTestCheckJob call each operation once.
AttemptsOf(ty) == IF ty = "full" THEN MaxAttempts ELSE 1

\* The lines of a log whose text is k.
LinesOf(logs, k) == Len(SelectSeq(logs, LAMBDA t : t[1] = k))

\* C11: when an operation of a job fails on every attempt the job's type gives it
\* (3 for a full job, 1 for a test job), the job ends "failed", the persisted error
\* is the error of the last of these attempts, and the operation was invoked, and
\* its attempts logged, exactly that many times.
Thm_C11 ==
  \A w \in Ran :
    LET X == wk[w].ex
        R == store[X.job]
        m == AttemptsOf(R.type)
    IN /\ X.plan.login >= m
            => /\ R.status = "failed"
               /\ R.error.op = "login" /\ R.error.n = m
               /\ X.calls.login = m /\ LoginAttempts(R.logs) = m
               /\ X.calls.check = 0
               /\ R.type = "full" => LinesOf(R.logs, "Login attempt failed") = m
       /\ (X.plan.login < m /\ X.plan.check >= m)
            => /\ R.status = "failed"
               /\ R.error.op = "check" /\ R.error.n = m
               /\ X.calls.check = m
               /\ R.type = "full" => LinesOf(R.logs, "Check attempt failed") = m

\* C11 witness: a full job whose login succeeded at its second attempt and whose
\* check failed at all three attempts has ended "failed".
Wit_C11 ==
  \E w \in Ran :
    /\ store[wk[w].ex.job].type = "full"
    /\ wk[w].ex.plan.login = 1
    /\ wk[w].ex.plan.check >= MaxAttempts
    /\ store[wk[w].ex.job].status = "failed"

\* ------------------------------------------------------------- C12 - C15
\* fn has returned success at one of its invocations.
Succeeded(r) == \E p \in 1..Len(r.outs) : r.outs[p] = NoErr

\* C12: for maxRetries >= 1, retryWithBackoff never invokes fn again after fn has
\* returned success, never invokes it more than maxRetries times, and has, when it
\* returns, invoked it exactly min(index of the first success, maxRetries) times:
\* up to the first success, or maxRetries times when there is none.
Thm_C12 ==
  rb.maxRetries >= 1 =>
    /\ \A p \in 1..(Len(rb.outs) - 1) : rb.outs[p] /= NoErr
    /\ Len(rb.outs) <= rb.maxRetries
    /\ rb.pc = "returned" =>
         /\ Len(rb.outs) >= 1
         /\ Succeeded(rb) \/ Len(rb.outs) = rb.maxRetries
         /\ Succeeded(rb) => rb.ret = NoErr

\* C12 witness: with maxRetries = 4, fn failed once and then succeeded, and the
\* call returned after 2 invocations.
Wit_C12 ==
  /\ rb.pc = "returned" /\ rb.maxRetries = 4
  /\ Len(rb.outs) = 2 /\ rb.outs[1] /= NoErr /\ rb.outs[2] = NoErr

\* C13: for maxRetries >= 1, when retryWithBackoff returns and no invocation of fn
\* succeeded, fn was invoked maxRetries times and the value returned is the error
\* of invocation number maxRetries (not nil, not an earlier error).
Thm_C13 ==
  (rb.pc = "returned" /\ rb.maxRetries >= 1 /\ ~Succeeded(rb)) =>
    /\ Len(rb.outs) = rb.maxRetries
    /\ rb.ret = rb.outs[rb.maxRetries]
    /\ rb.ret /= NoErr /\ rb.ret.n = rb.maxRetries

\* C13 witness: four invocations failed, the first and the last with different
\* errors, and the call returned.
Wit_C13 ==
  /\ rb.pc = "returned" /\ rb.maxRetries = 4 /\ ~Succeeded(rb)
  /\ rb.outs[1].op /= rb.outs[4].op

\* The "Retry" lines among the lines from..to of a log, in order.
RetryLinesIn(logs, from, to) == SelectSeq(SubSeq(logs, from, to), LAMBDA t : t[1] = "Retry")

\* The p-th wait of a loop comes before attempt p+1 and lasts p * 2 seconds.
Linear(ws) == \A p \in 1..Len(ws) : ws[p][2] = p + 1 /\ ws[p][3] = ((p + 1) - 1) * 2

\* The waits retryWithBackoff has slept, as <<"Retry", attempt, seconds>>.
SleptWaits == [p \in 1..Len(rb.waits) |-> <<"Retry", rb.waits[p][1], rb.waits[p][2]>>]

CX_C15 ==
  \A p \in 2..Len(rb.waits) : rb.waits[p][2] = 2 * rb.waits[p - 1][2]

\* ------------------------------------------------------------- C16 - C17
\* The workers whose goroutine a panic has unwound, and so left executeJob.
Panicked == {w \in 1..Len(wk) : wk[w].pc = "fatal"}

\* C16 as claimed: whenever executeJob has been left for a job, by its return or by
\* a panic, the lines its JobLogger accumulated are the job's persisted logs
\* (logger.Save has run).
CX_C16 ==
  \A w \in 1..Len(wk) :
    wk[w].pc \in {"ret", "fatal"} => store[wk[w].ex.job].logs = wk[w].ex.logs

\* C17 as claimed: a panic while a worker executes a job does not end the process,
\* and the job of a worker that a panic has left is recorded as "failed".
CX_C17 ==
  Panicked /= {} =>
    /\ ~crashed
    /\ \A w \in Panicked : store[wk[w].ex.job].status = "failed"

\* ------------------------------------------------------------------ C18
\* C18: a request whose job type is not one executeJob supports, or whose user has
\* no configured credentials (or whose configuration cannot be read), changes
\* nothing in the engine: no row in any status, nothing enqueued, no queue, no
\* worker, no call of JobManager.CreateJob.
Thm_C18 ==
  [][(req'.n = req.n + 1 /\ (req'.type \notin JobTypes \/ req'.cfg /= "configured"))
       => UNCHANGED engine]_vars

\* C18 witness: of three requests the last was for an unsupported type or an
\* unconfigured user, while the engine holds exactly the two jobs of the others.
Wit_C18 ==
  /\ req.n = 3 /\ Len(store) = 2 /\ ncalls = 2
  /\ (req.type \notin JobTypes \/ req.cfg = "unconfigured")
  /\ Len(wk) >= 1

\* ------------------------------------------------------------------ C19
\* User u has a job inside executeJob.
HasRunning(u) == \E w \in WorkersOf(u) : wk[w].pc \in ExecPcs

\* User u's queue holds QueueCap jobs.
QueueFull(u) == queues[u] /= NilChan /\ Len(chans[queues[u]].buf) = QueueCap

\* A CreateJob call for user u is in progress.
HasSubmitter(u) == \E c \in calls : c.user = u

\* The next statement of call c.
CallStep(c) ==
  \/ CreateJob_Lock(c) \/ CreateJob_MakeQueue(c) \/ CreateJob_StartWorker(c)
  \/ CreateJob_Unlock(c) \/ CreateJob_ReadQueue(c) \/ CreateJob_Send(c)

\* The next statement of worker w while it executes a job.
ExecStep(w) ==
  \/ executeJob_Running(w)
  \/ executeJob_Prepare(w, TRUE, TRUE, 0, 0)
  \/ InvokeLogin(w, TRUE) \/ InvokeCheck(w, TRUE) \/ executeJob_Final(w, TRUE)
  \/ executeJob_Status(w) \/ executeJob_Save(w) \/ executeJob_Return(w)

UnlockedReadPending ==
  \/ \E c \in calls : c.pc = "rdq" /\ mu /= c.job
  \/ \E w \in 1..Len(wk) : wk[w].pc = "start"

\* C20 as claimed: every access to jm.queues is made with the mutex held, so no
\* lookup of the map is ever pending in one goroutine while another goroutine is
\* writing the map (line 60), and the runtime never ends the process for it.
CX_C20 == ~(MapWriteInProgress /\ UnlockedReadPending)

\* ------------------------------------------------------------------ C21
\* C21 as claimed: no CreateJob call is ever blocked at the send while the worker
\* of its user is inside executeJob, the worker's return from executeJob being
\* the only thing that can let the call go on.
CX_C21 ==
  \A c \in calls :
    (c.pc = "send" /\ c.q /= NilChan /\ HasRunning(c.user)) => ENABLED CreateJob_Send(c)

\* ------------------------------------------------------------------ C22
\* A CreateJob call waits at the send: its channel is full (or nil).
BlockedAtSend == \E c \in calls : c.pc = "send" /\ ~CanSend(c.q)

\* jm.mu is held by a call that is between its Lock (line 58) and its Unlock
\* (line 67).
HeldInSection == \E d \in calls : d.job = mu /\ d.pc \in {"mkq", "mkw", "unlock"}

\* C22: in every state where a job is inside executeJob, a CreateJob call waits at
\* the send or a worker waits in its select, the mutex is free or held by a call
\* inside lines 58-67; the holder is never the waiting call nor a worker.
Thm_C22 ==
  (Executing /= {} \/ BlockedAtSend \/ \E w \in 1..Len(wk) : wk[w].pc = "select")
    => (mu = Free \/ HeldInSection)

\* C22 witness: a job of user 1 is inside executeJob and a call of user 1 waits at
\* the send on its full queue while a call of user 2 holds the mutex at line 60.
Wit_C22 ==
  /\ HasRunning(1)
  /\ \E c \in calls : c.user = 1 /\ c.pc = "send" /\ QueueFull(1)
  /\ \E d \in calls : d.user = 2 /\ d.pc = "mkq" /\ mu = d.job

\* ------------------------------------------------------------------ C23
\* C23 as claimed: once Stop has returned, every worker goroutine that was ever
\* started has returned from workerLoop (so none is alive, and none was started
\* since).
CX_C23 == stopPc = "done" => \A w \in 1..Len(wk) : wk[w].pc = "done"

Thm_C25 ==
  /\ (~shutdown /\ ~crashed) =>
       \A w \in 1..Len(wk) : wk[w].pc \in {"start", "select"} \cup ExecPcs
  /\ \A w \in 1..Len(wk) : wk[w].pc = "done" => shutdown

\* C25 witness: shutdown is not signalled, and a worker that has executed every job
\* submitted to it waits in its select on an empty queue.
Wit_C25 ==
  /\ ~shutdown /\ ~crashed
  /\ \E w \in 1..Len(wk) :
       /\ wk[w].pc = "select" /\ wk[w].queue /= NilChan
       /\ chans[wk[w].queue].buf = <<>>
       /\ execLog[wk[w].user] /= <<>>
       /\ \A c \in calls : c.user = wk[w].user => c.pc = "done"
       /\ \A j \in Jobs : store[j].user = wk[w].user => store[j].status \in Terminal

\* ------------------------------------------------------------------ C26
\* C26: once executeJob has passed its status update for a job whose run function
\* returned nil, the job's row has status "completed", a null error and a
\* completed_at written once; and no row with status "completed" has an error.
Thm_C26 ==
  /\ \A w \in 1..Len(wk) :
       (wk[w].pc \in {"save", "ret"} /\ wk[w].ex.err = NoErr) =>
          /\ store[wk[w].ex.job].status = "completed"
          /\ store[wk[w].ex.job].error = NoErr
          /\ store[wk[w].ex.job].completed = 1
  /\ \A j \in Jobs :
       store[j].status = "completed" => (store[j].error = NoErr /\ store[j].completed = 1)

\* C26 witness: a job whose login failed twice before it succeeded is completed,
\* and its saved log ends with the success line.
Wit_C26 ==
  \E j \in Jobs :
    /\ store[j].status = "completed" /\ store[j].completed = 1
    /\ store[j].logs /= <<>>
    /\ store[j].logs[Len(store[j].logs)] = Tok("Job completed successfully", 0, 0)
    /\ LoginAttempts(store[j].logs) = MaxAttempts

\* ------------------------------------------------------------------ C27
\* The lines saveScreenshot("error_final") has logged in logs.
HookLines(logs) ==
  SelectSeq(logs, LAMBDA t : t[1] \in {"Screenshot saved: error_final",
                                       "Failed to save screenshot error_final"})

\* e is the error of one of the failure paths of lines 102-119, which return before
\* the browser context and saveScreenshot exist.
EarlyFailure(e) == e.k \in {"Failed to get user config", "Failed to create screenshot dir"}

\* The worker has left the switch of executeJob with an error of its run function.
RunFailed(w) ==
  /\ wk[w].pc \in {"status", "save", "ret"}
  /\ wk[w].ex.err /= NoErr /\ ~EarlyFailure(wk[w].ex.err)

\* C27 as stated: every job that ends "failed" had saveScreenshot("error_final")
\* invoked exactly once before its status was persisted.
CX_C27 ==
  \A w \in 1..Len(wk) :
    (wk[w].pc \in {"status", "save", "ret"} /\ wk[w].ex.err /= NoErr)
      => Len(HookLines(wk[w].ex.logs)) = 1

\* C27 amended: for every job whose run function returned an error,
\* saveScreenshot("error_final") is invoked exactly once, right after "Job failed"
\* and before the status is persisted; whether or not the capture succeeds, the
\* status becomes "failed" with the run function's error and the log is saved with
\* the hook's line as its last.  (The failures of lines 102-119 invoke no hook.)
Thm_C27 ==
  /\ \A w \in 1..Len(wk) :
       RunFailed(w) =>
         LET L == wk[w].ex.logs IN
           /\ Len(HookLines(L)) = 1
           /\ Len(L) >= 2 /\ L[Len(L) - 1] = Tok("Job failed", 0, 0)
           /\ HookLines(L)[1] = L[Len(L)]
           /\ wk[w].pc = "status" => store[wk[w].ex.job].status = "running"
           /\ wk[w].pc \in {"save", "ret"} =>
                /\ store[wk[w].ex.job].status = "failed"
                /\ store[wk[w].ex.job].error = wk[w].ex.err
           /\ wk[w].pc = "ret" => store[wk[w].ex.job].logs = L
  /\ \A w \in 1..Len(wk) :
       (wk[w].pc \in {"status", "save", "ret"} /\ EarlyFailure(wk[w].ex.err))
         => HookLines(wk[w].ex.logs) = <<>>

\* C27 witness: the capture of the hook failed for a job whose login failed; the job
\* is "failed" with the login's error and its saved log ends with the hook's line.
Wit_C27 ==
  \E j \in Jobs :
    /\ store[j].status = "failed" /\ store[j].error.op = "login"
    /\ store[j].logs /= <<>>
    /\ store[j].logs[Len(store[j].logs)] = Tok("Failed to save screenshot error_final", 0, 0)

\* ------------------------------------------------------------------ C28
\* C28: the row of every job has had started_at written at most once and
\* completed_at at most once; completed_at is written only when started_at has
\* been; a row that is still "pending" (as the INSERT left it) has neither, a
\* "running" row has started_at only, and a terminal row has both.
Thm_C28 ==
  \A j \in Jobs :
    /\ store[j].started <= 1 /\ store[j].completed <= 1
    /\ store[j].completed <= store[j].started
    /\ store[j].status = "pending" => (store[j].started = 0 /\ store[j].completed = 0)
    /\ store[j].status = "running" => (store[j].started = 1 /\ store[j].completed = 0)
    /\ store[j].status \in Terminal => (store[j].started = 1 /\ store[j].completed = 1)

\* C28 witness: three rows of one user, the first terminal with both timestamps, the
\* second running with started_at only, the third pending with neither.
Wit_C28 ==
  \E i, j, k \in Jobs :
    /\ store[i].user = store[j].user /\ store[j].user = store[k].user
    /\ store[i].status \in Terminal /\ store[i].completed = 1
    /\ store[j].status = "running" /\ store[j].started = 1
    /\ store[k].status = "pending" /\ store[k].started = 0

\* ------------------------------------------------------------------ C29
\* s is an initial part of t.
IsPrefix(s, t) == Len(s) <= Len(t) /\ SubSeq(t, 1, Len(s)) = s

\* Worker w holds the logger of a job.
HoldsLogger(w) == wk[w].pc \in ExecPcs \ {"running"} /\ wk[w].ex.job /= NoJob

Thm_C30 ==
  /\ \A ch \in 1..Len(chans) :
       /\ Len(chans[ch].buf) <= QueueCap
       /\ \A p \in 1..Len(chans[ch].buf) :
            /\ chans[ch].buf[p] \in Jobs
            /\ store[chans[ch].buf[p]].status = "pending"
            /\ store[chans[ch].buf[p]].user = chans[ch].user
  /\ \A u \in Tenants : queues[u] /= NilChan => chans[queues[u]].user = u

\* C30 witness: user 1's queue holds QueueCap jobs while user 2's queue holds a job
\* of user 2 that its worker has not yet received.
Wit_C30 ==
  /\ QueueFull(1)
  /\ queues[2] /= NilChan /\ Len(chans[queues[2]].buf) >= 1
  /\ \A w \in WorkersOf(2) : wk[w].pc \in {"start", "select"}

\* ------------------------------------------------------------------ C31
\* The changes of a row's status executeJob makes.
Forward == {<<"pending", "running">>, <<"running", "completed">>, <<"running", "failed">>}

\* C31: every step leaves the status of every row as it is or moves it along
\* pending -> running -> completed | failed (so a terminal status is never left and
\* no row goes from pending to a terminal status), and no job is received from a
\* queue, and so executed, twice.
Thm_C31 ==
  /\ [][\A j \in Jobs :
          \/ store'[j].status = store[j].status
          \/ <<store[j].status, store'[j].status>> \in Forward]_vars
  /\ [](\A u \in Tenants :
          /\ \A p, q \in 1..Len(execLog[u]) : p /= q => execLog[u][p] /= execLog[u][q]
          /\ \A p \in 1..Len(execLog[u]) : store[execLog[u][p]].user = u)

\* C31 witness: of two jobs executed one after the other, one failed before its run
\* function was invoked and the other completed.
Wit_C31 ==
  \E i, j \in Jobs :
    /\ store[i].status = "failed" /\ EarlyFailure(store[i].error)
    /\ store[j].status = "completed"
    /\ Len(execLog[1]) = 2

\* ------------------------------------------------------------------ C32
\* C32: inside executeJob, up to the terminal update the job's row is "running"
\* with no completed_at and the logger has not been saved; between the terminal
\* update and logger.Save() the row is terminal, updated once, and the logger not
\* yet saved; when executeJob returns the row is terminal, updated once, and the
\* logger was saved once, with all its lines.
Thm_C32 ==
  \A w \in 1..Len(wk) :
    LET X == wk[w].ex IN
      /\ wk[w].pc \in {"prepare", "login", "check", "final", "status"} =>
           /\ store[X.job].status = "running" /\ store[X.job].completed = 0
           /\ X.saved = <<>>
      /\ wk[w].pc = "save" =>
           /\ store[X.job].status \in Terminal /\ store[X.job].completed = 1
           /\ X.saved = <<>>
      /\ wk[w].pc = "ret" =>
           /\ store[X.job].status \in Terminal /\ store[X.job].completed = 1
           /\ Len(X.saved) = 1 /\ store[X.job].logs = X.logs

\* C32 witness: executeJob is about to return for a job whose screenshot directory
\* could not be created.
Wit_C32 ==
  \E w \in 1..Len(wk) :
    /\ wk[w].pc = "ret" /\ wk[w].ex.err.k = "Failed to create screenshot dir"
    /\ store[wk[w].ex.job].status = "failed" /\ Len(wk[w].ex.saved) = 1

\* ------------------------------------------------------------------ C33
\* C33 as stated: when Stop is never called, every operation of a job returns and
\* every goroutine that can run does, every job CreateJob has returned eventually
\* has status "completed" or "failed".
CX_C33 ==
  \A j \in 1..MaxCallsFair :
    (j \in Returned) ~> (j \in Jobs /\ store[j].status \in Terminal)

\* ------------------------------------------------------------------ C34
\* The jobs waiting in the queues made for user u.
Waiting(u) ==
  UNION {{chans[ch].buf[p] : p \in 1..Len(chans[ch].buf)} : ch \in ChansOf(u)}

\* The worker of user u has returned from workerLoop.
WorkerGone(u) == \E w \in WorkersOf(u) : wk[w].pc = "done"

\* The row of job j in the state the INSERT left it.
Untouched(j) ==
  /\ store[j].status = "pending" /\ store[j].error = NoErr /\ store[j].logs = <<>>
  /\ store[j].started = 0 /\ store[j].completed = 0

\* C34: once the worker of a user has returned on shutdown, every job waiting in
\* the user's queue has the row the INSERT left (pending, no started_at, no
\* completed_at, no error, no logs), and no step changes that row or takes the job
\* from the queue.
Thm_C34 ==
  /\ [](\A u \in Tenants : WorkerGone(u) => \A j \in Waiting(u) : Untouched(j))
  /\ [][\A u \in Tenants :
          WorkerGone(u) =>
            \A j \in Waiting(u) : store'[j] = store[j] /\ j \in Waiting(u)']_vars

\* C34 witness: Stop has returned, the worker of a user has executed one job and
\* returned, and another job of that user still waits in its queue.
Wit_C34 ==
  /\ stopPc = "done"
  /\ \E u \in Tenants :
       /\ WorkerGone(u) /\ Waiting(u) /= {}
       /\ execLog[u] /= <<>>
       /\ \A j \in Waiting(u) : Untouched(j)

\* ------------------------------------------------------------------ C35
\* A run function (runTestLoginJob, runTestCheckJob or runFullJob) has logged its
\* first line in logs.
Invoked(logs) == \E p \in 1..Len(logs) : logs[p] \in {StartLine(ty) : ty \in JobTypes}

RetryDone == rb.pc = "returned" /\ rb.maxRetries = MaxAttempts

\* Worker w has just left the login loop of runFullJob (lines 212-229).
LoginLoopDone(w) ==
  /\ wk[w].pc \in {"check", "final"} /\ wk[w].ex.calls.check = 0
  /\ wk[w].ex.calls.login >= 1 /\ store[wk[w].ex.job].type = "full"

\* Worker w has just left the check loop of runFullJob (lines 244-261).
CheckLoopDone(w) ==
  /\ wk[w].pc = "final" /\ wk[w].ex.calls.check >= 1
  /\ store[wk[w].ex.job].type = "full"

\* fn met the outcomes of an operation that fails its first k invocations and
\* then succeeds, as far as retryWithBackoff invoked it.
SameOutcomes(k) == \A p \in 1..Len(rb.outs) : (rb.outs[p] = NoErr) <=> (p > k)

\* A loop that invoked its operation n times, logged the waits ws and was left with
\* the error le did what the call of retryWithBackoff did.
SameRun(n, ws, le) ==
  /\ Len(rb.outs) = n
  /\ SleptWaits = ws
  /\ (rb.ret = NoErr) <=> (le = NoErr)
  /\ rb.ret /= NoErr => (rb.ret.n = le.n /\ rb.ret = rb.outs[Len(rb.outs)])

\* C37: whenever retryWithBackoff with maxRetries = 3 and a retry loop of
\* runFullJob have met the same outcomes of their operations, they have made the
\* same number of invocations, slept the same waits before the same attempts, and
\* ended alike: with success, or with the error of the last invocation.
Thm_C37 ==
  RetryDone =>
    \A w \in 1..Len(wk) :
      LET X == wk[w].ex IN
        /\ (LoginLoopDone(w) /\ SameOutcomes(X.plan.login)) =>
             SameRun(X.calls.login, RetryLinesIn(X.logs, 1, Len(X.logs)), X.lastErr)
        /\ (CheckLoopDone(w) /\ SameOutcomes(X.plan.check)) =>
             SameRun(X.calls.check,
                     RetryLinesIn(X.logs, LastLogin(X.logs) + 1, Len(X.logs)), X.lastErr)

\* C37 witness: retryWithBackoff returned the third error of an operation that
\* always fails, and the check loop of a full job was left after three failures.
Wit_C37 ==
  /\ RetryDone /\ Len(rb.outs) = MaxAttempts /\ rb.ret /= NoErr
  /\ \E w \in 1..Len(wk) :
       /\ CheckLoopDone(w) /\ SameOutcomes(wk[w].ex.plan.check)
       /\ wk[w].ex.calls.check = MaxAttempts /\ wk[w].ex.lastErr /= NoErr

\* ------------------------------------------------------------------ C38
\* The last invocation of GasolinaLogin made for the job of worker w succeeded.
LoginSucceeded(w) ==
  wk[w].ex.calls.login >= 1 /\ wk[w].ex.calls.login > wk[w].ex.plan.login

\* C38: in a full job CheckAndUpdateIfNeededWithLogger is invoked only once an
\* invocation of GasolinaLogin has succeeded; a full job whose three login attempts
\* failed is left without an invocation of the check and with an error, and ends
\* "failed"; and a full job invokes each of the two at most three times, whatever
\* the other needed.
Thm_C38 ==
  \A w \in 1..Len(wk) :
    (wk[w].pc \in ExecPcs \ {"running"} /\ store[wk[w].ex.job].type = "full") =>
      LET X == wk[w].ex IN
        /\ X.calls.login <= MaxAttempts /\ X.calls.check <= MaxAttempts
        /\ (X.calls.check >= 1 \/ wk[w].pc = "check") => LoginSucceeded(w)
        /\ (X.calls.login = MaxAttempts /\ ~LoginSucceeded(w)
              /\ wk[w].pc \in {"final", "status", "save", "ret"}) =>
             (X.calls.check = 0 /\ X.err /= NoErr /\ X.err.op = "login")
        /\ (X.calls.login = MaxAttempts /\ ~LoginSucceeded(w)
              /\ wk[w].pc \in {"save", "ret"}) => store[X.job].status = "failed"

\* C38 witness: a full job whose login succeeded at the third attempt has invoked
\* the check three times.
Wit_C38 ==
  \E w \in 1..Len(wk) :
    /\ wk[w].pc \in ExecPcs \ {"running"}
    /\ store[wk[w].ex.job].type = "full" /\ LoginSucceeded(w)
    /\ wk[w].ex.calls.login = MaxAttempts /\ wk[w].ex.calls.check = MaxAttempts

\* ------------------------------------------------------------------ C39
\* Worker w is between the terminal update of job j and logger.Save().
BeforeSave(j) == \E w \in 1..Len(wk) : wk[w].pc = "save" /\ wk[w].ex.job = j

\* logs holds the line executeJob logs last for a job with this status and error:
\* the success line; "Job failed" (followed by the line of the hook); or, for the
\* failures of lines 102-119, the error message.
HasFinalLine(logs, status, e) ==
  /\ logs /= <<>>
  /\ IF status = "completed" THEN logs[Len(logs)] = Tok("Job completed successfully", 0, 0)
     ELSE IF EarlyFailure(e) THEN logs[Len(logs)] = Tok(e.k, 0, 0)
     ELSE Len(logs) >= 2 /\ logs[Len(logs) - 1] = Tok("Job failed", 0, 0)

\* C39 as stated: every row with status "completed" or "failed" holds the job's
\* log, its last line included.
CX_C39 ==
  \A j \in Jobs : store[j].status \in Terminal => store[j].logs /= <<>>

\* C39 amended: the terminal status is persisted before the log.  While executeJob
\* is between its terminal update and logger.Save() the row is terminal with no
\* logs; from the Save on, the row holds the complete log of the job, its last
\* line included, equal to the lines of the logger.
Thm_C39 ==
  /\ \A j \in Jobs :
       store[j].status \in Terminal =>
         IF BeforeSave(j) THEN store[j].logs = <<>>
         ELSE HasFinalLine(store[j].logs, store[j].status, store[j].error)
  /\ \A w \in 1..Len(wk) :
       wk[w].pc = "ret" => store[wk[w].ex.job].logs = wk[w].ex.logs

\* C39 witness: executeJob has returned for a failed full job; its row holds the
\* log with the retries, "Job failed" and the line of the hook.
Wit_C39 ==
  \E j \in Jobs :
    /\ store[j].status = "failed" /\ store[j].type = "full" /\ j \notin Executing
    /\ HasFinalLine(store[j].logs, "failed", store[j].error)
    /\ LoginAttempts(store[j].logs) = MaxAttempts

====
